---- MODULE Spec2Model ----
(***************************************************************************)
(* A model of assembla2github.py: the export-file line interpreter         *)
(* (filereadertoassemblaobjectgenerator, mapjsonlinetoassembblaobject),    *)
(* the indexer (genindex), the wiki tree builder (wikiparser) and the      *)
(* chronological replay generator (wikicommitgenerator).                   *)
(*                                                                         *)
(* Text is modelled character by character: a Python str is a sequence of  *)
(* one-character strings.  Python objects that the code aliases (rows of   *)
(* a table) are modelled by their position in the table.                   *)
(***************************************************************************)
EXTENDS Integers, Sequences, FiniteSets, TLC

VARIABLES
    lines,      \* filereader.readlines(): the export file, one str per line
    consumed,   \* number of lines the for loop of the generator has taken
    fieldmap,   \* tablefields: table name -> declared field list
    yielded,    \* the tuples the generator has yielded so far
    log,        \* the records handed to the logging module
    status,     \* "running", "done" or "aborted" (an exception escaped)
    error,      \* the exception that escaped, NoError if none
    data,       \* DictPlus data: table name -> list of rows, in file order
    index,      \* data['_index']: table name -> key -> row (its position)
    enrich,     \* the synthetic '_...' keys written into the wiki rows
    runs,       \* number of calls of wikiparser so far
    order,      \* wikiorder: the list wikiparser returned last
    replay,     \* the version rows wikicommitgenerator has taken, in order
    events      \* the events wikicommitgenerator has yielded

parseVars == <<lines, consumed, fieldmap, yielded, log, status, error, data>>

wikiVars == <<enrich, runs, order, replay, events>>

vars == <<parseVars, index, wikiVars>>

\* Python's None among the integer values of a field.
None == -1

\* The wiki state before any wiki command has run.
NoEnrich == [pages |-> <<>>, versions |-> <<>>]
WikiIdle ==
    /\ enrich = NoEnrich
    /\ runs = 0
    /\ order = <<>>
    /\ replay = <<>>
    /\ events = <<>>

----------------------------------------------------------------------------
(* Python str operations used by the line interpreter.                     *)

\* A stand-in for one character outside string.printable (e.g. BEL).
NonPrintable == "\\x07"

\* The characters of string.printable that occur in the modelled files.
Printable ==
    {"t", "u", "a", "b", "x", "n", "l", "f", "i", "e", "d", "s", "#",
     "1", "2", "3", ":", ",", " ", "[", "]", "\"", "\n", "\t", "\r"}

\* The characters str.rstrip() and str.strip() remove.
Whitespace == {" ", "\t", "\n", "\r"}

RECURSIVE RStrip(_)
RStrip(s) ==
    IF s # <<>> /\ s[Len(s)] \in Whitespace
    THEN RStrip(SubSeq(s, 1, Len(s) - 1))
    ELSE s

RECURSIVE LStrip(_)
LStrip(s) ==
    IF s # <<>> /\ s[1] \in Whitespace THEN LStrip(Tail(s)) ELSE s

Strip(s) == LStrip(RStrip(s))

\* ''.join(x for x in _line if x in string.printable)
OnlyPrintable(s) == SelectSeq(s, LAMBDA c : c \in Printable)

\* str.find(sep, i) with 1-based positions; 0 when sep does not occur.
RECURSIVE FindFrom(_, _, _)
FindFrom(s, sep, i) ==
    IF i + Len(sep) - 1 > Len(s) THEN 0
    ELSE IF SubSeq(s, i, i + Len(sep) - 1) = sep THEN i
    ELSE FindFrom(s, sep, i + 1)

\* str.split(sep), sep non-empty: the pieces between the occurrences of
\* sep, taken left to right without overlap.
RECURSIVE Split(_, _)
Split(s, sep) ==
    LET i == FindFrom(s, sep, 1) IN
    IF i = 0 THEN <<s>>
    ELSE <<SubSeq(s, 1, i - 1)>> \o Split(SubSeq(s, i + Len(sep), Len(s)), sep)

\* str.replace(old, new): EVERY occurrence of old, left to right without
\* overlap.  For an empty old Python puts new around every character.
RECURSIVE Replace(_, _, _)
Replace(s, old, new) ==
    IF old = <<>>
    THEN IF s = <<>> THEN new
         ELSE new \o <<s[1]>> \o Replace(Tail(s), old, new)
    ELSE LET i == FindFrom(s, old, 1) IN
         IF i = 0 THEN s
         ELSE SubSeq(s, 1, i - 1) \o new
                \o Replace(SubSeq(s, i + Len(old), Len(s)), old, new)

----------------------------------------------------------------------------
(* json.loads on the texts the interpreter hands it: an array of scalars   *)
(* (string without escapes, unsigned integer, null).  A JSON value is a    *)
(* record [kind, text]; a decode result is [ok, arr].                      *)

JStr(s) == [kind |-> "str", text |-> s]
JNum(s) == [kind |-> "num", text |-> s]
JNull == [kind |-> "null", text |-> <<>>]

Digits == {"0", "1", "2", "3", "4", "5", "6", "7", "8", "9"}
NullText == <<"n", "u", "l", "l">>

JsonFail == [ok |-> FALSE, arr |-> <<>>]

RECURSIVE SkipWs(_, _)
SkipWs(s, i) ==
    IF i <= Len(s) /\ s[i] \in Whitespace THEN SkipWs(s, i + 1) ELSE i

RECURSIVE DigitsEnd(_, _)
DigitsEnd(s, i) ==
    IF i <= Len(s) /\ s[i] \in Digits THEN DigitsEnd(s, i + 1) ELSE i

\* One scalar at position i: [ok, val, next].
ParseValue(s, i) ==
    LET bad == [ok |-> FALSE, val |-> JNull, next |-> i] IN
    IF i > Len(s) THEN bad
    ELSE IF s[i] = "\""
    THEN LET j == FindFrom(s, <<"\"">>, i + 1) IN
         IF j = 0 THEN bad
         ELSE [ok |-> TRUE, val |-> JStr(SubSeq(s, i + 1, j - 1)), next |-> j + 1]
    ELSE IF s[i] \in Digits
    THEN LET j == DigitsEnd(s, i) IN
         IF s[i] = "0" /\ j > i + 1 THEN bad
         ELSE [ok |-> TRUE, val |-> JNum(SubSeq(s, i, j - 1)), next |-> j]
    ELSE IF i + 3 <= Len(s) /\ SubSeq(s, i, i + 3) = NullText
    THEN [ok |-> TRUE, val |-> JNull, next |-> i + 4]
    ELSE bad

\* The elements after the first one: each is ',' value; ']' ends the array
\* and only whitespace may follow it.
RECURSIVE ParseRest(_, _, _)
ParseRest(s, i, acc) ==
    LET k == SkipWs(s, i) IN
    IF k > Len(s) THEN JsonFail
    ELSE IF s[k] = "]"
    THEN IF SkipWs(s, k + 1) > Len(s) THEN [ok |-> TRUE, arr |-> acc] ELSE JsonFail
    ELSE IF s[k] = ","
    THEN LET v == ParseValue(s, SkipWs(s, k + 1)) IN
         IF v.ok THEN ParseRest(s, v.next, Append(acc, v.val)) ELSE JsonFail
    ELSE JsonFail

JsonLoads(s) ==
    LET i == SkipWs(s, 1) IN
    IF i > Len(s) \/ s[i] # "[" THEN JsonFail
    ELSE LET k == SkipWs(s, i + 1) IN
         IF k <= Len(s) /\ s[k] = "]"
         THEN IF SkipWs(s, k + 1) > Len(s) THEN [ok |-> TRUE, arr |-> <<>>]
              ELSE JsonFail
         ELSE LET v == ParseValue(s, k) IN
              IF v.ok THEN ParseRest(s, v.next, <<v.val>>) ELSE JsonFail

----------------------------------------------------------------------------
(* The line interpreter.                                                   *)

FieldsSep == <<":", "f", "i", "e", "l", "d", "s", ",", " ">>
RowSep == <<",", " ", "[">>
CommaSpace == <<",", " ">>

\* enumerate(filereader.readlines()): the counter given to the i-th line.
Enumerate(i) == i - 1

NoError == [kind |-> "none", linenum |-> -1, actual |-> -1, expected |-> -1,
            linetype |-> <<>>]

\* json.loads raising on text that is not JSON.
JSONDecodeError == [kind |-> "JSONDecodeError", linenum |-> -1, actual |-> -1,
                    expected |-> -1, linetype |-> <<>>]

\* 'Assertion fail: {3} line [{0}] actual fields [{1}] != expected fields [{2}]'
AssertionError(linenum, actual, expected, linetype) ==
    [kind |-> "AssertionError", linenum |-> linenum, actual |-> actual,
     expected |-> expected, linetype |-> linetype]

\* One logging call; linenum is -1 when the message does not hold it.
LogRecord(level, msg, linenum) ==
    [level |-> level, msg |-> msg, linenum |-> linenum]

EmptyRow == [k \in {} |-> JNull]

Min(a, b) == IF a < b THEN a ELSE b

\* {field: value for field, value in zip(fieldlist, arr)}: zip stops at the
\* shorter list, a repeated field keeps its last value.
ZipRow(fieldlist, arr) ==
    LET n == Min(Len(fieldlist), Len(arr)) IN
    [f \in {fieldlist[i] : i \in 1..n} |->
        arr[CHOOSE i \in 1..n :
                /\ fieldlist[i] = f
                /\ \A j \in 1..n : fieldlist[j] = f => j <= i]]

\* The same function without the length check: a short or long row is
\* zipped as far as it goes.
mapjsonlineUnchecked(jsonstring, fieldlist, linenum, linetype) ==
    LET parsed == JsonLoads(jsonstring) IN
    IF ~parsed.ok
    THEN [error |-> JSONDecodeError, row |-> EmptyRow,
          logs |-> <<LogRecord("debug", "attempting to parse", linenum)>>]
    ELSE [error |-> NoError, row |-> ZipRow(fieldlist, parsed.arr),
          logs |-> <<LogRecord("debug", "attempting to parse", linenum)>>]

mapjsonlinetoassembblaobject(jsonstring, fieldlist, linenum, linetype) ==
    LET parsed == JsonLoads(jsonstring)
        logs == <<LogRecord("debug", "attempting to parse", linenum)>>
    IN
    IF ~parsed.ok
    THEN [error |-> JSONDecodeError, row |-> EmptyRow, logs |-> logs]
    ELSE IF Len(parsed.arr) # Len(fieldlist)
    THEN [error |-> AssertionError(linenum, Len(parsed.arr), Len(fieldlist),
                                   linetype),
          row |-> EmptyRow, logs |-> logs]
    ELSE [error |-> NoError, row |-> ZipRow(fieldlist, parsed.arr),
          logs |-> logs]

\* What the body of the for loop does with one line: the new schema map,
\* the tuples it yields (none or one), its logging calls and the exception
\* that escapes it (NoError if none).
Outcome(fm, out, logs, err) ==
    [fieldmap |-> fm, out |-> out, logs |-> logs, error |-> err]

\* logging.error(...); continue
SkipLine(fm, logs, msg, linenum) ==
    Outcome(fm, <<>>, Append(logs, LogRecord("error", msg, linenum)), NoError)

\* A declaration that keeps the first schema of a table.
DeclareSchemaOnce(fm, key, text, logs) ==
    LET parsed == JsonLoads(text) IN
    IF ~parsed.ok THEN Outcome(fm, <<>>, logs, JSONDecodeError)
    ELSE IF key \in DOMAIN fm THEN Outcome(fm, <<>>, logs, NoError)
    ELSE Outcome([k \in DOMAIN fm \cup {key} |->
                     IF k = key THEN parsed.arr ELSE fm[k]],
                 <<>>, logs, NoError)

\* fieldmap[key] = json.loads(fields[1]); continue
DeclareSchema(fm, key, text, logs) ==
    LET parsed == JsonLoads(text) IN
    IF ~parsed.ok THEN Outcome(fm, <<>>, logs, JSONDecodeError)
    ELSE Outcome([k \in DOMAIN fm \cup {key} |->
                     IF k = key THEN parsed.arr ELSE fm[k]],
                 <<>>, logs, NoError)

\* An undeclared table that raises instead of being skipped.
UndefinedTableRaises(fm, logs, table, linenum) ==
    Outcome(fm, <<>>, logs, AssertionError(linenum, 0, 0, table))

\* logging.error("line #{linenum}: Table '{table}' not defined before
\* '{line}'"); continue -- the message is not an f-string, so it holds the
\* literal braces and no line number.
UndefinedTable(fm, logs, table, linenum) ==
    SkipLine(fm, logs, "Table not defined before", -1)

\* currentline = line.replace(table + ', ', '').strip(), then the row is
\* decoded and yielded as (linenum, line, table, row).
ParseRow(fm, logs, line, table, linenum) ==
    LET currentline == Strip(Replace(line, table \o CommaSpace, <<>>))
        r == mapjsonlinetoassembblaobject(currentline, fm[table], linenum,
                                          table)
    IN
    IF r.error # NoError THEN Outcome(fm, <<>>, logs \o r.logs, r.error)
    ELSE Outcome(fm,
                 <<[linenum |-> linenum, line |-> line, table |-> table,
                    row |-> r.row]>>,
                 logs \o r.logs, NoError)

\* The body of the for loop for the line with counter linenum.
Interpret(rawline, linenum, fm) ==
    LET stripped == RStrip(rawline)
        line == OnlyPrintable(stripped)
        logs == (IF line # stripped
                 THEN <<LogRecord("debug", "Unprintable chars", linenum)>>
                 ELSE <<>>)
                \o <<LogRecord("debug", "line", linenum)>>
        fields == Split(line, FieldsSep)
        heading == Split(line, RowSep)
        table == heading[1]
    IN
    IF Len(fields) > 2
    THEN SkipLine(fm, logs, "Unexpected field count", linenum)
    ELSE IF Len(fields) > 1
    THEN DeclareSchema(fm, fields[1], fields[2], logs)
    ELSE IF Len(heading) < 2
    THEN SkipLine(fm, logs, "Unexpected syntax", linenum)
    ELSE IF table \notin DOMAIN fm
    THEN UndefinedTable(fm, logs, table, linenum)
    ELSE ParseRow(fm, logs, line, table, linenum)

\* data.setdefault(table, []); data.get(table).append(row)
Collect(d, table, row) ==
    [k \in DOMAIN d \cup {table} |->
        IF k = table
        THEN (IF table \in DOMAIN d THEN d[table] ELSE <<>>) \o <<row>>
        ELSE d[k]]

\* One iteration of main's for loop over the generator: the generator takes
\* the next line and either skips it, stores a schema, raises, or yields a
\* tuple whose row main appends to the table's list.
ReadLine ==
    /\ status = "running"
    /\ consumed < Len(lines)
    /\ LET n == consumed + 1
           o == Interpret(lines[n], Enumerate(n), fieldmap)
       IN
       /\ consumed' = n
       /\ fieldmap' = o.fieldmap
       /\ yielded' = yielded \o o.out
       /\ log' = log \o o.logs
       /\ error' = o.error
       /\ status' = IF o.error # NoError THEN "aborted" ELSE "running"
       /\ data' = IF o.out = <<>> THEN data
                  ELSE Collect(data, o.out[1].table, o.out[1].row)
    /\ UNCHANGED <<lines, index, wikiVars>>

\* readlines() is exhausted: the generator returns and main leaves the loop.
EndOfFile ==
    /\ status = "running"
    /\ consumed = Len(lines)
    /\ status' = "done"
    /\ UNCHANGED <<lines, consumed, fieldmap, yielded, log, error, data, index,
                   wikiVars>>

----------------------------------------------------------------------------
(* The export files the interpreter is run on.                             *)

TableT == <<"t">>
TableU == <<"u">>
FieldA == JStr(<<"a">>)
FieldB == JStr(<<"b">>)

\* A JSON text of a scalar and of an array, as an encoder writes them:
\* elements separated by ", ".
DumpValue(v) ==
    IF v.kind = "str" THEN <<"\"">> \o v.text \o <<"\"">>
    ELSE IF v.kind = "num" THEN v.text
    ELSE NullText

RECURSIVE JoinValues(_)
JoinValues(vs) ==
    IF vs = <<>> THEN <<>>
    ELSE IF Len(vs) = 1 THEN DumpValue(vs[1])
    ELSE DumpValue(vs[1]) \o CommaSpace \o JoinValues(Tail(vs))

JsonDumps(vs) == <<"[">> \o JoinValues(vs) \o <<"]">>

\* Schema line: <table>:fields, <json-array-of-field-names>
EncodeSchema(T, S) == T \o FieldsSep \o JsonDumps(S)

\* Data line: <table>, <json-array-of-values>
EncodeRow(T, V) == T \o CommaSpace \o JsonDumps(V)

Schemas == {<<FieldA>>, <<FieldA, FieldB>>}

\* Value lists of one and two scalars; the strings include one that holds
\* the text "t, " and one that holds a character outside string.printable.
ValueLists ==
    {<<JNum(<<"1">>)>>,
     <<JStr(<<"x">>), JNull>>,
     <<JStr(<<"t", ",", " ", "x">>)>>,
     <<JStr(<<"x", NonPrintable>>)>>}

\* Lines that are neither a schema nor a row, a line with two ":fields, "
\* separators, and a row whose array is cut short.
JunkLine == <<"#", " ", "x">>
TwoSeparators == TableT \o FieldsSep \o FieldsSep \o <<"x">>
CutRow == TableT \o CommaSpace \o <<"[", "1">>

LinePool ==
    {EncodeSchema(TableT, S) \o <<"\n">> : S \in Schemas}
    \cup {EncodeRow(TableT, V) \o <<"\n">> : V \in ValueLists}
    \cup {EncodeRow(TableU, <<JNum(<<"1">>)>>) \o <<"\n">>,
          JunkLine \o <<"\n">>, TwoSeparators \o <<"\n">>, CutRow \o <<"\n">>}

\* The longest file of the model.
MaxLines == 3

Files == UNION {[1..n -> LinePool] : n \in 0..MaxLines}

EmptyMap == [k \in {} |-> <<>>]

InitParse ==
    /\ lines \in Files
    /\ consumed = 0
    /\ fieldmap = EmptyMap
    /\ yielded = <<>>
    /\ log = <<>>
    /\ status = "running"
    /\ error = NoError
    /\ data = EmptyMap
    /\ index = EmptyMap
    /\ WikiIdle

NextParse == ReadLine \/ EndOfFile

SpecParse == InitParse /\ [][NextParse]_vars

----------------------------------------------------------------------------
(* The file read declaratively, line by line, for stating the claims.      *)

Range(f) == {f[i] : i \in DOMAIN f}

\* Line i as the interpreter sees it.
Clean(i) == OnlyPrintable(RStrip(lines[i]))

\* Line i holds the separator ":fields, " exactly once: a schema line.
IsSchemaLine(i) == Len(Split(Clean(i), FieldsSep)) = 2
SchemaTable(i) == Split(Clean(i), FieldsSep)[1]
SchemaFields(i) == JsonLoads(Split(Clean(i), FieldsSep)[2])

\* Line i holds no ":fields, " and holds ", [": a data row of RowTable(i).
IsRowLine(i) ==
    /\ FindFrom(Clean(i), FieldsSep, 1) = 0
    /\ FindFrom(Clean(i), RowSep, 1) # 0
RowTable(i) == SubSeq(Clean(i), 1, FindFrom(Clean(i), RowSep, 1) - 1)

\* Line i matches neither form.
MatchesNeither(i) ==
    /\ FindFrom(Clean(i), FieldsSep, 1) = 0
    /\ FindFrom(Clean(i), RowSep, 1) = 0

\* The last schema line of table T before line i, 0 if there is none.
LastDecl(T, i) ==
    LET js == {j \in 1..(i - 1) : IsSchemaLine(j) /\ SchemaTable(j) = T} IN
    IF js = {} THEN 0 ELSE CHOOSE j \in js : \A k \in js : k <= j

\* The array the interpreter decodes from row line i.
RowArray(i) ==
    JsonLoads(Strip(Replace(Clean(i), RowTable(i) \o CommaSpace, <<>>)))

\* Row line i has a schema in force and decodes to an array whose length
\* is, or is not, the schema's field count.
HasSchema(i) == IsRowLine(i) /\ LastDecl(RowTable(i), i) > 0
FieldCount(i) == Len(SchemaFields(LastDecl(RowTable(i), i)).arr)
Mismatch(i) ==
    HasSchema(i) /\ RowArray(i).ok /\ Len(RowArray(i).arr) # FieldCount(i)
ValidRow(i) ==
    HasSchema(i) /\ RowArray(i).ok /\ Len(RowArray(i).arr) = FieldCount(i)

\* Line i is skipped: neither form, or a row of a table with no schema yet.
Skippable(i) ==
    MatchesNeither(i) \/ (IsRowLine(i) /\ LastDecl(RowTable(i), i) = 0)

YieldedFor(i) == {k \in 1..Len(yielded) : yielded[k].linenum = Enumerate(i)}

----------------------------------------------------------------------------
(* Claims about the line interpreter (checked under SpecParse).            *)

\* C5: parsing is a left inverse of encoding: when the line just taken is
\* 'T, ' followed by the JSON array of V, and the schema S declared for T
\* has len(S) = len(V), the interpreter yields one record with table T and
\* row {S[i]: V[i]}, whatever printable text the strings of V hold.
C5_ParseInvertsEncode ==
    \A V \in ValueLists :
        (/\ \A m \in 1..Len(V) : Range(V[m].text) \subseteq Printable
         /\ consumed >= 1
         /\ lines[consumed] = EncodeRow(TableT, V) \o <<"\n">>
         /\ TableT \in DOMAIN fieldmap
         /\ Len(fieldmap[TableT]) = Len(V))
        => /\ status # "aborted"
           /\ Cardinality(YieldedFor(consumed)) = 1
           /\ yielded[Len(yielded)].table = TableT
           /\ yielded[Len(yielded)].row = ZipRow(fieldmap[TableT], V)

\* C6: a row whose parsed array length differs from the field count of the
\* schema declared for its table raises the fatal error at that line: the
\* run is aborted there with the AssertionError, no record is yielded for
\* the line, no later line is taken, and every yielded row has exactly the
\* fields of its schema.
C6_MismatchIsFatal ==
    /\ \A i \in 1..consumed :
          Mismatch(i) => /\ status = "aborted"
                         /\ error.kind = "AssertionError"
                         /\ i = consumed
                         /\ YieldedFor(i) = {}
    /\ \A k \in 1..Len(yielded) :
          LET i == yielded[k].linenum + 1 IN
          /\ Len(RowArray(i).arr) = FieldCount(i)
          /\ DOMAIN yielded[k].row = Range(SchemaFields(LastDecl(RowTable(i), i)).arr)

C6_Witness ==
    /\ status = "aborted"
    /\ error.kind = "AssertionError"
    /\ Mismatch(consumed)
    /\ Len(yielded) >= 1

\* C8: a line that matches neither form, or a row whose table has no
\* schema at that point, is logged and skipped: no record is yielded for
\* it, the run is not aborted by it, one error is logged for it, the schema
\* map holds exactly the declarations of the schema lines, and every valid
\* row taken, before or after it, is yielded.
C8_SkippedLinesAreHarmless ==
    /\ \A i \in 1..consumed :
          Skippable(i) => /\ YieldedFor(i) = {}
                          /\ ~(status = "aborted" /\ i = consumed)
    /\ Cardinality({k \in 1..Len(log) :
                       /\ log[k].level = "error"
                       /\ log[k].msg \in {"Unexpected syntax",
                                          "Table not defined before"}})
         = Cardinality({i \in 1..consumed : Skippable(i)})
    /\ status # "aborted" =>
          /\ DOMAIN fieldmap = {SchemaTable(j) : j \in {i \in 1..consumed : IsSchemaLine(i)}}
          /\ \A T \in DOMAIN fieldmap :
                fieldmap[T] = SchemaFields(LastDecl(T, consumed + 1)).arr
    /\ \A i \in 1..consumed : ValidRow(i) => Cardinality(YieldedFor(i)) = 1

C8_Witness ==
    \E i, j \in 1..consumed :
        /\ i < j
        /\ IsRowLine(i)
        /\ LastDecl(RowTable(i), i) = 0
        /\ YieldedFor(j) # {}

\* C9: a row is decoded against the most recent schema declaration of its
\* table before it in the file: every yielded row, at any later time, is
\* keyed by the fields of that declaration, and the fatal field-count
\* error compares against that declaration's field count.
C9_RowsUseLatestSchema ==
    /\ \A k \in 1..Len(yielded) :
          LET i == yielded[k].linenum + 1
              j == LastDecl(yielded[k].table, i)
          IN /\ j > 0
             /\ DOMAIN yielded[k].row = Range(SchemaFields(j).arr)
             /\ Len(RowArray(i).arr) = Len(SchemaFields(j).arr)
    /\ (status = "aborted" /\ error.kind = "AssertionError") =>
          error.expected
            = Len(SchemaFields(LastDecl(error.linetype, consumed)).arr)

C9_Witness ==
    \E k \in 1..Len(yielded) :
        LET i == yielded[k].linenum + 1
            j == LastDecl(yielded[k].table, i)
        IN \E h \in 1..(j - 1) :
              /\ IsSchemaLine(h)
              /\ SchemaTable(h) = yielded[k].table
              /\ SchemaFields(h).arr # SchemaFields(j).arr

\* C10: the fatal field-count error names the line number of the offending
\* row, counting the first line of the file as line 1.
C10_ErrorNamesLine ==
    (status = "aborted" /\ error.kind = "AssertionError")
        => error.linenum = consumed

----------------------------------------------------------------------------
(* The indexer.  A row is a dict from field name to value; a row object is *)
(* named by its table and its position in the table's list.                *)

WikiPages == <<"w", "i", "k", "i", "_", "p", "a", "g", "e", "s">>
WikiPageVersions ==
    <<"w", "i", "k", "i", "_", "p", "a", "g", "e", "_",
      "v", "e", "r", "s", "i", "o", "n", "s">>
WikiPageBlobs ==
    <<"w", "i", "k", "i", "_", "p", "a", "g", "e", "_", "b", "l", "o", "b", "s">>
MergeRequests ==
    <<"m", "e", "r", "g", "e", "_", "r", "e", "q", "u", "e", "s", "t", "s">>
FieldsTable == <<"_", "f", "i", "e", "l", "d", "s">>
UsersTable == <<"_", "u", "s", "e", "r", "s">>

\* The order in which the tables first appear in the file, which is the
\* order of data.items().
TableOrder ==
    <<WikiPages, WikiPageVersions, WikiPageBlobs, MergeRequests, FieldsTable>>

\* table.startswith('_')
StartsWithUnderscore(table) == table # <<>> /\ table[1] = "_"

\* The tables the keymap of main maps to None.
OmittedTables == {MergeRequests}

\* keymap.get(table, default) for the tables that have a key.
KeyField(table) == IF table = WikiPageBlobs THEN "version_id" ELSE "id"

\* A failed lookup that raises nothing.
KeyErrorSwallowed == NoError

KeyError == [kind |-> "KeyError", linenum |-> -1, actual |-> -1,
             expected |-> -1, linetype |-> <<>>]

\* logging.warning(f"Non unique id in table '{table}', {len(set(ids))}
\* unique of {len(ids)} rows")
NonUniqueWarning(table, unique, total) ==
    [level |-> "warning", msg |-> "Non unique id", table |-> table,
     unique |-> unique, total |-> total]

\* A dict built so that the first row of a key is kept.
FirstRowWins(objects, key) ==
    [k \in {objects[i][key] : i \in 1..Len(objects)} |->
        CHOOSE i \in 1..Len(objects) :
            /\ objects[i][key] = k
            /\ \A j \in 1..Len(objects) : objects[j][key] = k => i <= j]

\* {k[key]: k for k in objects}: a later row replaces an earlier one.
IndexTable(objects, key) ==
    [k \in {objects[i][key] : i \in 1..Len(objects)} |->
        CHOOSE i \in 1..Len(objects) :
            /\ objects[i][key] = k
            /\ \A j \in 1..Len(objects) : objects[j][key] = k => j <= i]

\* The loop of genindex over the tables from position n of the order on.
RECURSIVE genindexFrom(_, _, _)
genindexFrom(d, n, acc) ==
    IF n > Len(TableOrder) THEN acc
    ELSE LET table == TableOrder[n] IN
         IF table \notin DOMAIN d THEN genindexFrom(d, n + 1, acc)
         ELSE IF table \in OmittedTables \/ StartsWithUnderscore(table)
         THEN genindexFrom(d, n + 1, acc)
         ELSE LET objects == d[table]
                  key == KeyField(table)
              IN
              IF \E i \in 1..Len(objects) : key \notin DOMAIN objects[i]
              THEN [acc EXCEPT !.error = KeyError]
              ELSE LET unique == Cardinality({objects[i][key] : i \in 1..Len(objects)})
                       logs == IF Len(objects) # unique
                               THEN <<NonUniqueWarning(table, unique, Len(objects))>>
                               ELSE <<>>
                       tab == IndexTable(objects, key)
                   IN genindexFrom(d, n + 1,
                        [acc EXCEPT
                            !.logs = acc.logs \o logs,
                            !.index = [t \in DOMAIN acc.index \cup {table} |->
                                          IF t = table THEN tab
                                          ELSE acc.index[t]]])

genindex(d) ==
    genindexFrom(d, 1, [index |-> EmptyMap, logs |-> <<>>, error |-> NoError])

\* main: data['_fields'] = tablefields; data['_index'] = genindex(data, {...})
GenIndex ==
    /\ status = "done"
    /\ LET d == [t \in DOMAIN data \cup {FieldsTable} |->
                    IF t = FieldsTable THEN fieldmap ELSE data[t]]
           r == genindex(d)
       IN
       /\ data' = d
       /\ log' = log \o r.logs
       /\ error' = r.error
       /\ status' = IF r.error # NoError THEN "aborted" ELSE "indexed"
       /\ index' = IF r.error # NoError THEN index ELSE r.index
    /\ UNCHANGED <<lines, consumed, fieldmap, yielded, wikiVars>>

\* if not uid: continue
Truthy(x) == x # None /\ x # 0

\* scrapeusers: every truthy user_id of every table whose name does not
\* start with '_', with the tables it occurs in (ASSEMBLA_USERID is empty).
scrapeusers(d) ==
    LET tables == {t \in DOMAIN d : ~StartsWithUnderscore(t)}
        uses(t) == {d[t][i]["user_id"] :
                      i \in {j \in 1..Len(d[t]) : "user_id" \in DOMAIN d[t][j]}}
        uids == {u \in UNION {uses(t) : t \in tables} : Truthy(u)}
    IN [u \in uids |-> [id |-> u, tables |-> {t \in tables : u \in uses(t)}]]

\* main: data["_index"]["_users"] = scrapeusers(data)
ScrapeUsers ==
    /\ status = "indexed"
    /\ index' = [t \in DOMAIN index \cup {UsersTable} |->
                    IF t = UsersTable THEN scrapeusers(data) ELSE index[t]]
    /\ status' = "ready"
    /\ UNCHANGED <<lines, consumed, fieldmap, yielded, log, error, data,
                   wikiVars>>

----------------------------------------------------------------------------
(* Snapshots handed to the indexer.                                        *)

\* The longest table of the snapshots.
MaxRows == 3

SeqsUpTo(S, n) == UNION {[1..m -> S] : m \in 0..n}

\* Rows of wiki_pages with two ids and two titles, and one without an id.
IndexRowPool ==
    [id : {1, 2}, user_id : {7}, page_name : {"A", "B"}]
        \cup {[user_id |-> 0, page_name |-> "A"]}

BlobTables ==
    {<<>>, <<[version_id |-> 1, blob_id |-> 5]>>,
     <<[version_id |-> 1, blob_id |-> 5], [version_id |-> 1, blob_id |-> 6]>>}

MergeTables == {<<>>, <<[title |-> "A"]>>}

InitIndex ==
    /\ lines = <<>>
    /\ consumed = 0
    /\ fieldmap = EmptyMap
    /\ yielded = <<>>
    /\ log = <<>>
    /\ status = "done"
    /\ error = NoError
    /\ \E pages \in SeqsUpTo(IndexRowPool, MaxRows), blobs \in BlobTables,
          merges \in MergeTables :
          data = [t \in {WikiPages, WikiPageBlobs, MergeRequests} |->
                     IF t = WikiPages THEN pages
                     ELSE IF t = WikiPageBlobs THEN blobs ELSE merges]
    /\ index = EmptyMap
    /\ WikiIdle

NextIndex == GenIndex \/ ScrapeUsers

SpecIndex == InitIndex /\ [][NextIndex]_vars

----------------------------------------------------------------------------
(* Claims about the indexer (checked under SpecIndex).                     *)

IndexedTables ==
    {t \in DOMAIN data : t \notin OmittedTables /\ ~StartsWithUnderscore(t)}

KeysOf(t) == {data[t][i][KeyField(t)] : i \in 1..Len(data[t])}
RowsWithKey(t, k) == {i \in 1..Len(data[t]) : data[t][i][KeyField(t)] = k}
HasDuplicates(t) == \E k \in KeysOf(t) : Cardinality(RowsWithKey(t, k)) > 1
WarningsFor(t) ==
    {n \in 1..Len(log) : log[n].level = "warning" /\ log[n].table = t}

\* C7: a table in which a key occurs on more than one row does not make
\* genindex fail; it logs exactly one warning for that table (none for a
\* table without duplicates), and the map takes every duplicated key to the
\* last row that carries it and every other key to its only row.
C7_DuplicateKeysWarnLastWins ==
    /\ status = "aborted" =>
          \E t \in IndexedTables : \E i \in 1..Len(data[t]) :
              KeyField(t) \notin DOMAIN data[t][i]
    /\ status \in {"indexed", "ready"} =>
          \A t \in IndexedTables :
              /\ DOMAIN index[t] = KeysOf(t)
              /\ \A k \in KeysOf(t) :
                    /\ index[t][k] \in RowsWithKey(t, k)
                    /\ \A i \in RowsWithKey(t, k) : i <= index[t][k]
              /\ Cardinality(WarningsFor(t)) = IF HasDuplicates(t) THEN 1 ELSE 0

C7_Witness ==
    /\ status = "indexed"
    /\ \E k1, k2 \in KeysOf(WikiPages) :
          /\ Cardinality(RowsWithKey(WikiPages, k1)) > 1
          /\ Cardinality(RowsWithKey(WikiPages, k2)) = 1
          /\ \E i, j \in RowsWithKey(WikiPages, k1) :
                data[WikiPages][i] # data[WikiPages][j]
    /\ HasDuplicates(WikiPageBlobs)

----------------------------------------------------------------------------
(* The wiki tree builder.  The rows of wiki_pages and wiki_page_versions   *)
(* are dicts of source fields; the synthetic keys the code writes into a   *)
(* row are kept beside it, in enrich.pages[i] and enrich.versions[j], with *)
(* the set `has` of the keys the row holds.  A reference to a row object   *)
(* is the row's position in its table, a reference to a user is the user's *)
(* id.  A timestamp string is [local, offset]: wall-clock time and UTC     *)
(* offset.                                                                 *)

\* DictPlus.find: the key is in the index of the table.
Found(table, id) == table \in DOMAIN index /\ id \in DOMAIN index[table]

\* datetime.fromisoformat: an aware datetime, which compares and sorts by
\* its UTC instant.
fromisoformat(ts) == [utc |-> ts.local - ts.offset, tz |-> ts.offset]

Epoch == [utc |-> 0, tz |-> 0]

\* A row that holds no synthetic key yet.
PlainPage ==
    [has |-> {}, parent |-> None, children |-> <<>>, user |-> None,
     created |-> Epoch, updated |-> Epoch, level |-> 0]
PlainVersion ==
    [has |-> {}, blob |-> None, page |-> None, user |-> None,
     created |-> Epoch, updated |-> Epoch]

\* sorted(xs, key=...): the positions of keys in the order a stable sort
\* puts them: by key, equal keys in their original order.
SortedIndices(keys) ==
    LET n == Len(keys)
        rank(i) == 1 + Cardinality({j \in 1..n :
                          \/ keys[j] < keys[i]
                          \/ (keys[j] = keys[i] /\ j < i)})
    IN [r \in 1..n |-> CHOOSE i \in 1..n : rank(i) = r]

\* wikitree.setdefault(parent, []); wikitree[parent].append(v)
TreeAppend(tree, parent, i) ==
    [k \in DOMAIN tree \cup {parent} |->
        IF k = parent
        THEN (IF parent \in DOMAIN tree THEN tree[parent] ELSE <<>>) \o <<i>>
        ELSE tree[k]]

\* The first loop of wikiparser from row i on: pg are the synthetic keys of
\* the pages, tree is wikitree.  A child list attached to a parent is the
\* list object wikitree[parent]; every append to that list is followed, in
\* the same iteration, by attaching it to the same parent again, so the
\* list value kept here is always the value of the shared list.
RECURSIVE PagesPass(_, _, _)
PagesPass(i, pg, tree) ==
    IF i > Len(data[WikiPages])
    THEN [pages |-> pg, tree |-> tree, error |-> NoError]
    ELSE
    LET v == data[WikiPages][i]
        parent == v.parent_id
        p1 == [pg[i] EXCEPT
                 !.has = @ \cup {"_parent_id", "_children"},
                 !.parent = IF Found(WikiPages, parent)
                            THEN index[WikiPages][parent] ELSE None,
                 !.children = IF "_children" \in pg[i].has THEN @ ELSE <<>>]
    IN
    IF ~Found(UsersTable, v.user_id)
    THEN [pages |-> [pg EXCEPT ![i] = p1], tree |-> tree, error |-> KeyError]
    ELSE
    LET p2 == [p1 EXCEPT
                 !.has = @ \cup {"_user_id", "_created_at", "_updated_at"},
                 !.user = v.user_id,
                 !.created = fromisoformat(v.created_at),
                 !.updated = fromisoformat(v.updated_at)]
        pgA == [pg EXCEPT ![i] = p2]
        tree2 == TreeAppend(tree, parent, i)
    IN
    IF ~Truthy(parent)
    THEN PagesPass(i + 1,
                   [pgA EXCEPT ![i].level = 0, ![i].has = @ \cup {"_level"}],
                   tree2)
    ELSE IF ~Found(WikiPages, parent)
    THEN [pages |-> pgA, tree |-> tree2, error |-> KeyError]
    ELSE
    LET po == index[WikiPages][parent]
        pgB == [pgA EXCEPT ![po].children = tree2[parent],
                           ![po].has = @ \cup {"_children"}]
        lvl == (IF "_level" \in pgB[po].has THEN pgB[po].level ELSE 0) + 1
    IN PagesPass(i + 1,
                 [pgB EXCEPT ![i].level = lvl, ![i].has = @ \cup {"_level"}],
                 tree2)

\* The second loop of wikiparser, over wiki_page_versions, from row j on.
RECURSIVE VersionsPass(_, _)
VersionsPass(j, vs) ==
    IF j > Len(data[WikiPageVersions])
    THEN [versions |-> vs, error |-> NoError]
    ELSE
    LET v == data[WikiPageVersions][j] IN
    IF ~Found(WikiPageBlobs, v.id)
    THEN [versions |-> vs, error |-> KeyError]
    ELSE
    LET v1 == [vs[j] EXCEPT
                 !.has = @ \cup {"_blob_id"},
                 !.blob = data[WikiPageBlobs][index[WikiPageBlobs][v.id]].blob_id]
    IN
    IF ~Found(WikiPages, v.wiki_page_id)
    THEN [versions |-> [vs EXCEPT ![j] = v1], error |-> KeyError]
    ELSE
    LET v2 == [v1 EXCEPT !.has = @ \cup {"_wiki_page_id"},
                         !.page = index[WikiPages][v.wiki_page_id]]
    IN
    IF ~Found(UsersTable, v.user_id)
    THEN [versions |-> [vs EXCEPT ![j] = v2], error |-> KeyError]
    ELSE VersionsPass(j + 1,
            [vs EXCEPT ![j] =
                [v2 EXCEPT
                   !.has = @ \cup {"_user_id", "_created_at", "_updated_at"},
                   !.user = v.user_id,
                   !.created = fromisoformat(v.created_at),
                   !.updated = fromisoformat(v.updated_at)]])

\* Siblings in the order of the list, not sorted.
SiblingsUnsorted(tree) == tree

\* sorted(tree, key=lambda v: v['position'])
SiblingsSorted(tree) ==
    LET perm == SortedIndices([k \in 1..Len(tree) |->
                                  data[WikiPages][tree[k]].position])
    IN [k \in 1..Len(tree) |-> tree[perm[k]]]

\* _wikitraverse(tree): each sibling, in sorted order, followed by the
\* traversal of its '_children'.
RECURSIVE wikitraverse(_, _)
RECURSIVE TraverseFrom(_, _, _)
TraverseFrom(sibs, k, pg) ==
    IF k > Len(sibs) THEN <<>>
    ELSE <<sibs[k]>>
         \o (IF "_children" \in pg[sibs[k]].has
             THEN wikitraverse(pg[sibs[k]].children, pg) ELSE <<>>)
         \o TraverseFrom(sibs, k + 1, pg)
wikitraverse(tree, pg) == TraverseFrom(SiblingsSorted(tree), 1, pg)

\* wikiparser(data): the synthetic keys after the call, the returned list
\* and the exception that escaped.  An exception leaves the keys written
\* so far in the rows.
wikiparser(en) ==
    LET p == PagesPass(1, en.pages, EmptyMap) IN
    IF p.error # NoError
    THEN [enrich |-> [en EXCEPT !.pages = p.pages], order |-> <<>>,
          error |-> p.error]
    ELSE
    LET q == VersionsPass(1, en.versions)
        en2 == [pages |-> p.pages, versions |-> q.versions]
    IN
    IF q.error # NoError
    THEN [enrich |-> en2, order |-> <<>>, error |-> q.error]
    ELSE IF None \notin DOMAIN p.tree
    THEN [enrich |-> en2, order |-> <<>>, error |-> KeyError]
    ELSE [enrich |-> en2, order |-> wikitraverse(p.tree[None], p.pages),
          error |-> NoError]

\* The largest number of calls of wikiparser on the same data.
MaxRuns == 2

\* wikiorder = wikiparser(data), in cmd_wiki, cmd_wikiscrape and
\* cmd_wikiconvert; a second call runs on the rows the first one enriched.
WikiParser ==
    /\ status = "ready"
    /\ runs < MaxRuns
    /\ replay = <<>>
    /\ LET r == wikiparser(enrich) IN
       /\ enrich' = r.enrich
       /\ order' = r.order
       /\ error' = r.error
       /\ status' = IF r.error # NoError THEN "aborted" ELSE "ready"
    /\ runs' = runs + 1
    /\ UNCHANGED <<lines, consumed, fieldmap, yielded, log, data, index,
                   replay, events>>

----------------------------------------------------------------------------
(* The chronological replay generator.                                     *)

SidebarFile == <<"_Sidebar", ".md">>

\* wikiindexproducer(index): the header and one line per page, indented by
\* '  ' * _level.
wikiindexproducer(pages) ==
    [header |-> "**PortAudio**",
     lines |-> [k \in 1..Len(pages) |->
                  [indent |-> 2 * enrich.pages[pages[k]].level,
                   link |-> data[WikiPages][pages[k]].page_name]]]

\* author.get('name', author.get('id')): the scraped users hold no name.
AuthorName(uid) == index[UsersTable][uid].id

\* getwikiblob(v)
getwikiblob(j) ==
    [title |-> data[WikiPages][enrich.versions[j].page].page_name,
     revision |-> data[WikiPageVersions][j].version,
     by |-> AuthorName(enrich.versions[j].user),
     at |-> enrich.versions[j].updated]

\* A sort key that is the wall-clock time of the row.
VersionKeyLocal(j) == data[WikiPageVersions][j].updated_at.local

\* key=lambda v: v['_updated_at']
VersionKey(j) == enrich.versions[j].updated.utc

\* sorted(wikiversions, key=lambda v: v['_updated_at'])
SortedVersions ==
    SortedIndices([j \in 1..Len(data[WikiPageVersions]) |-> VersionKey(j)])

\* filter(lambda w: w['_created_at'] <= now and w['status'] == 1, order)
IndexPages(now) ==
    SelectSeq(order, LAMBDA w :
        /\ enrich.pages[w].created.utc <= now.utc
        /\ data[WikiPages][w].status = 1)

\* The dict the generator yields for version row j.  A change_comment is
\* <<>> for None and <<text>> for a string; v['change_comment'] or '' turns
\* None and '' into ''.
CommitEvent(j) ==
    LET v == data[WikiPageVersions][j]
        p == data[WikiPages][enrich.versions[j].page]
        now == enrich.versions[j].updated
        fname == <<p.page_name, ".md">>
    IN [name |-> <<p.page_name, ":", v.version>>,
        files |-> [f \in {SidebarFile, fname} |->
                     IF f = fname THEN [blob |-> getwikiblob(j)]
                     ELSE [sidebar |-> wikiindexproducer(IndexPages(now))]],
        author_name |-> AuthorName(enrich.versions[j].user),
        author_email |-> "none@localhost",
        date |-> now,
        message |-> IF v.change_comment \in {<<>>, <<"">>} THEN ""
                    ELSE v.change_comment[1]]

\* One iteration of the for loop of cmd_wikiconvert: the generator takes
\* the next row of the sorted versions and yields its event.
NextCommit ==
    /\ status = "ready"
    /\ runs >= 1
    /\ Len(replay) < Len(data[WikiPageVersions])
    /\ LET j == SortedVersions[Len(replay) + 1] IN
       /\ replay' = Append(replay, j)
       /\ events' = Append(events, CommitEvent(j))
    /\ UNCHANGED <<parseVars, index, enrich, runs, order>>

NextWiki == WikiParser \/ NextCommit

----------------------------------------------------------------------------
(* The wiki tables the tree builder and the generator are run on.  The     *)
(* state is the one main reaches before it calls the command: the tables   *)
(* indexed by genindex, the users scraped.                                 *)

Stamp(local, offset) == [local |-> local, offset |-> offset]

PageRow(id, parent, position, st, created) ==
    [id |-> id, parent_id |-> parent, position |-> position, user_id |-> 7,
     status |-> st, page_name |-> "Page", created_at |-> created,
     updated_at |-> created]

VersionRow(id, page, updated) ==
    [id |-> id, wiki_page_id |-> page, user_id |-> 7, version |-> id,
     change_comment |-> <<>>, created_at |-> updated, updated_at |-> updated]

BlobRow(id) == [version_id |-> id, blob_id |-> id]

InitWiki(pages, versions) ==
    LET d == [t \in {WikiPages, WikiPageVersions, WikiPageBlobs, FieldsTable} |->
                 IF t = WikiPages THEN pages
                 ELSE IF t = WikiPageVersions THEN versions
                 ELSE IF t = WikiPageBlobs
                 THEN [j \in 1..Len(versions) |-> BlobRow(versions[j].id)]
                 ELSE EmptyMap]
        ix == genindex(d).index
    IN
    /\ lines = <<>>
    /\ consumed = 0
    /\ fieldmap = EmptyMap
    /\ yielded = <<>>
    /\ log = <<>>
    /\ status = "ready"
    /\ error = NoError
    /\ data = d
    /\ index = [t \in DOMAIN ix \cup {UsersTable} |->
                   IF t = UsersTable THEN scrapeusers(d) ELSE ix[t]]
    /\ enrich = [pages |-> [i \in 1..Len(pages) |-> PlainPage],
                 versions |-> [j \in 1..Len(versions) |-> PlainVersion]]
    /\ runs = 0
    /\ order = <<>>
    /\ replay = <<>>
    /\ events = <<>>

\* The largest wiki_pages table of the tree builder's runs.
MaxPages == 3

\* Pages in any file order relative to their parents: the page of row i has
\* id i, and its parent_id is None, 0 or the id of any row, before or
\* after it; positions repeat.
InitTree ==
    \E n \in 1..MaxPages :
        \E parents \in [1..n -> {None, 0} \cup 1..n],
           positions \in [1..n -> {0, 1}] :
            InitWiki([i \in 1..n |->
                         PageRow(i, parents[i], positions[i], 1, Stamp(1, 0))],
                     <<VersionRow(1, 1, Stamp(2, 0))>>)

SpecTree == InitTree /\ [][NextWiki]_vars

\* The largest wiki_page_versions table of the generator's runs.
MaxVersions == 3

\* Timestamps of which two are the same instant written with different
\* offsets, and one is a later instant with an earlier wall-clock time.
Stamps == {Stamp(1, 0), Stamp(3, 2), Stamp(2, 0)}

\* A page row under the title the dump gives it.
Titled(row, title) == [row EXCEPT !.page_name = title]

\* Titles of the second page: an ordinary one and the one whose file name
\* is the name of the index artifact.
Titles == {"Sub", "_Sidebar"}

InitReplay ==
    \E m \in 0..MaxVersions :
        \E pageOf \in [1..m -> {1, 2}], stamps \in [1..m -> Stamps],
           parent2 \in {None, 1}, status2 \in {1, 2}, title2 \in Titles :
            InitWiki(<<Titled(PageRow(1, None, 0, 1, Stamp(1, 0)), "Home"),
                       Titled(PageRow(2, parent2, 0, status2, Stamp(2, 0)),
                              title2)>>,
                     [j \in 1..m |-> VersionRow(j, pageOf[j], stamps[j])])

SpecReplay == InitReplay /\ [][NextWiki]_vars

\* A row under the user_id the dump gives it.
OwnedBy(row, uid) == [row EXCEPT !.user_id = uid]

\* The user_id values of the rows: a user, null and 0.
UserIds == {7, None, 0}

\* The largest wiki_pages table of the runs on open references.
MaxRefPages == 2

\* Pages and a version whose references may be open: the page of row i has
\* id i, its parent_id is None, 0, the id of a row or n + 1, the id of no
\* row; the user_id of a page or of the version is a user, None or 0.
InitRefs ==
    \E n \in 1..MaxRefPages :
        \E parents \in [1..n -> {None, 0} \cup 1..(n + 1)],
           owners \in [1..n -> UserIds], editor \in UserIds :
            InitWiki([i \in 1..n |->
                         OwnedBy(PageRow(i, parents[i], 0, 1, Stamp(1, 0)),
                                 owners[i])],
                     <<OwnedBy(VersionRow(1, 1, Stamp(2, 0)), editor)>>)

SpecRefs == InitRefs /\ [][NextWiki]_vars

----------------------------------------------------------------------------
(* Claims about the tree builder (checked under SpecTree).                 *)

NPages == Len(data[WikiPages])
ParentId(i) == data[WikiPages][i].parent_id
HasParent(i) == Truthy(ParentId(i))

\* The row of the parent of page i (the ids of the pages are unique).
ParentRow(i) == CHOOSE p \in 1..NPages : data[WikiPages][p].id = ParentId(i)

\* The parent chain of page i ends, within fuel steps, at a page without a
\* parent.
RECURSIVE ChainEnds(_, _)
ChainEnds(i, fuel) ==
    IF ~HasParent(i) THEN TRUE
    ELSE IF fuel = 0 THEN FALSE
    ELSE ChainEnds(ParentRow(i), fuel - 1)

\* The pages form a forest: no page is on a parent cycle.
IsForest == \A i \in 1..NPages : ChainEnds(i, NPages)

\* Page a is a proper ancestor of page j.
RECURSIVE IsAncestor(_, _, _)
IsAncestor(a, j, fuel) ==
    /\ HasParent(j)
    /\ fuel > 0
    /\ (ParentRow(j) = a \/ IsAncestor(a, ParentRow(j), fuel - 1))

Descendants(a) == {j \in 1..NPages : IsAncestor(a, j, NPages)}

\* C2: after the enrichment pass over pages in any file order, a page
\* without a parent has _level 0 and a page with a parent has the final
\* _level of its parent plus 1 (stated for pages that form a forest).
C2_LevelIsParentLevelPlusOne ==
    (runs = 1 /\ status = "ready" /\ IsForest) =>
        \A i \in 1..NPages :
            enrich.pages[i].level =
                IF HasParent(i) THEN enrich.pages[ParentRow(i)].level + 1
                ELSE 0

\* C3: in the returned list no page occurs twice, the descendants of a page
\* are exactly the pages that follow it directly (so they come after it and
\* before the subtree of its next sibling), and the children of one parent,
\* as well as the roots, come in ascending order of position.
C3_ListIsPreOrder ==
    (runs >= 1 /\ status = "ready") =>
        /\ \A k, m \in 1..Len(order) : order[k] = order[m] => k = m
        /\ \A k \in 1..Len(order) :
              LET n == Cardinality(Descendants(order[k])) IN
              /\ k + n <= Len(order)
              /\ {order[m] : m \in (k + 1)..(k + n)} = Descendants(order[k])
        /\ \A k, m \in 1..Len(order) :
              (k < m /\ ParentId(order[k]) = ParentId(order[m])) =>
                  data[WikiPages][order[k]].position
                      <= data[WikiPages][order[m]].position

\* A root with a descendant comes before a root that precedes it in the
\* file.
C3_Witness ==
    /\ runs >= 1
    /\ status = "ready"
    /\ \E k, m \in 1..Len(order) :
          /\ k < m
          /\ ParentId(order[k]) = None
          /\ ParentId(order[m]) = None
          /\ order[k] > order[m]
          /\ Descendants(order[k]) # {}

\* C4: the enrichment pass is idempotent: a second run of wikiparser on the
\* enriched rows leaves every synthetic field as the first run left it and
\* returns the same list (stated for pages that form a forest).
C4_SecondRunChangesNothing ==
    [][(runs = 1 /\ runs' = 2 /\ status' = "ready" /\ IsForest)
          => (enrich' = enrich /\ order' = order)]_vars

\* C13: whenever wikiparser returns, the returned list holds every row of
\* wiki_pages exactly once, whatever the parent_id of the row (None, a falsy
\* value, a row listed later, a row on a parent cycle).
C13_ListHoldsEveryPageOnce ==
    (runs >= 1 /\ status = "ready") =>
        \A i \in 1..NPages :
            Cardinality({k \in 1..Len(order) : order[k] = i}) = 1

----------------------------------------------------------------------------
(* Claims about open references (checked under SpecRefs).                  *)

\* A page or a version names a user the user index does not hold.
UnresolvedUser ==
    \/ \E i \in 1..NPages :
          data[WikiPages][i].user_id \notin DOMAIN index[UsersTable]
    \/ \E j \in 1..Len(data[WikiPageVersions]) :
          data[WikiPageVersions][j].user_id \notin DOMAIN index[UsersTable]

\* The parent_id of page i is neither null nor falsy.
NamesParent(i) == ParentId(i) # None /\ ParentId(i) # 0

\* The parent_id of page i is the id of a page.
ParentExists(i) ==
    \E p \in 1..NPages : data[WikiPages][p].id = ParentId(i)

\* A page names a parent that is not the id of any page.
DanglingParent ==
    \E i \in 1..NPages : NamesParent(i) /\ ~ParentExists(i)

\* C12: when a page or a version has a user_id that the user index does not
\* hold, or a page has a parent_id that is neither null nor falsy and is
\* the id of no page, wikiparser ends with an error and returns no list;
\* when it returns, a page with a null or falsy parent_id has no parent
\* and level 0, and every other page is linked to the page it names.
C12_OpenReferenceIsFatal ==
    runs >= 1 =>
        /\ (UnresolvedUser \/ DanglingParent) =>
              (status = "aborted" /\ error = KeyError /\ order = <<>>)
        /\ status = "ready" =>
              \A i \in 1..NPages :
                  IF NamesParent(i)
                  THEN /\ enrich.pages[i].parent # None
                       /\ data[WikiPages][enrich.pages[i].parent].id
                             = ParentId(i)
                       /\ enrich.pages[i].level >= 1
                  ELSE /\ enrich.pages[i].parent = None
                       /\ enrich.pages[i].level = 0

\* A run that ends with an error although every user is known and one
\* page has the falsy parent_id 0: another page names a parent that is no
\* page.
C12_Witness ==
    /\ runs = 1
    /\ status = "aborted"
    /\ error = KeyError
    /\ ~UnresolvedUser
    /\ DanglingParent
    /\ \E i \in 1..NPages : ParentId(i) = 0

----------------------------------------------------------------------------
(* Claims about the replay generator (checked under SpecReplay).           *)

NVersions == Len(data[WikiPageVersions])

\* The instant a version's updated_at string denotes.
Instant(j) ==
    data[WikiPageVersions][j].updated_at.local
        - data[WikiPageVersions][j].updated_at.offset

\* C1: the generator emits one event per version row, in the stable sort of
\* the rows by their parsed updated timestamp: no row is emitted twice,
\* each event carries its row's timestamp, the timestamps never decrease,
\* rows with equal timestamps keep their input order, every row emitted
\* sorts before every row not emitted yet, and the generator goes on until
\* every row is emitted.
C1_ReplayIsStableSortByTime ==
    /\ Len(events) = Len(replay)
    /\ \A k \in 1..Len(replay) :
          /\ replay[k] \in 1..NVersions
          /\ events[k].date.utc = Instant(replay[k])
          /\ events[k].name[3] = data[WikiPageVersions][replay[k]].version
    /\ \A k, m \in 1..Len(replay) :
          k < m => /\ replay[k] # replay[m]
                   /\ events[k].date.utc <= events[m].date.utc
                   /\ (Instant(replay[k]) = Instant(replay[m])
                          => replay[k] < replay[m])
    /\ \A k \in 1..Len(replay) :
          \A j \in (1..NVersions) \ {replay[m] : m \in 1..Len(replay)} :
              \/ Instant(replay[k]) < Instant(j)
              \/ (Instant(replay[k]) = Instant(j) /\ replay[k] < j)
    /\ (status = "ready" /\ runs >= 1 /\ Len(replay) < NVersions)
          => ENABLED NextCommit

\* Every row is emitted, out of file order, with two rows of one instant
\* written with different offsets.
C1_Witness ==
    /\ NVersions >= 3
    /\ Len(replay) = NVersions
    /\ \E k, m \in 1..Len(replay) : k < m /\ replay[k] > replay[m]
    /\ \E k, m \in 1..Len(replay) :
          /\ k < m
          /\ Instant(replay[k]) = Instant(replay[m])
          /\ data[WikiPageVersions][replay[k]].updated_at
               # data[WikiPageVersions][replay[m]].updated_at

----------------------------------------------------------------------------
(* Claims about the files of the replay events (checked under SpecReplay). *)

\* The instant a page's created_at string denotes.
CreatedInstant(i) ==
    data[WikiPages][i].created_at.local - data[WikiPages][i].created_at.offset

\* Page i exists and is active at the time of version j.
ListedAt(i, j) ==
    CreatedInstant(i) <= Instant(j) /\ data[WikiPages][i].status = 1

\* The lines of the index at the time of version j: the listed pages of the
\* pre-order list, in the order of the list, each indented by two spaces
\* per level.
IndexLinesAt(j) ==
    LET listed == SelectSeq(order, LAMBDA w : ListedAt(w, j))
    IN [k \in 1..Len(listed) |->
           [indent |-> 2 * enrich.pages[listed[k]].level,
            link |-> data[WikiPages][listed[k]].page_name]]

\* C11: in every emitted event the file '_Sidebar.md' is the index, and the
\* index lists exactly the pages of the pre-order list that were created at
\* or before the version's updated timestamp and are active, in the order
\* of the list, one line per page indented by two spaces per level; the
\* pages are chosen anew for each version.
C11_SidebarListsActivePages ==
    \A k \in 1..Len(events) :
        /\ SidebarFile \in DOMAIN events[k].files
        /\ LET f == events[k].files[SidebarFile] IN
           /\ DOMAIN f = {"sidebar"}
           /\ f.sidebar.lines = IndexLinesAt(replay[k])

\* The same statement for the events of pages whose file is not the index
\* artifact.
SidebarListsActivePagesOfOtherTitles ==
    \A k \in 1..Len(events) :
        <<data[WikiPages][enrich.versions[replay[k]].page].page_name, ".md">>
            # SidebarFile
        => /\ SidebarFile \in DOMAIN events[k].files
           /\ DOMAIN events[k].files[SidebarFile] = {"sidebar"}
           /\ events[k].files[SidebarFile].sidebar.lines
                 = IndexLinesAt(replay[k])

\* An event whose index leaves out a page created later, followed by an
\* event whose index lists that page, indented below its parent.
LaterPageJoinsIndex ==
    \E k, m \in 1..Len(events) :
        /\ k < m
        /\ DOMAIN events[k].files[SidebarFile] = {"sidebar"}
        /\ DOMAIN events[m].files[SidebarFile] = {"sidebar"}
        /\ Len(events[k].files[SidebarFile].sidebar.lines) = 1
        /\ Len(events[m].files[SidebarFile].sidebar.lines) = 2
        /\ events[m].files[SidebarFile].sidebar.lines[2].indent = 2

\* The file name of the page of the k-th event.
DocumentFile(k) ==
    <<data[WikiPages][enrich.versions[replay[k]].page].page_name, ".md">>

\* C14: the files map of every replay event holds two distinct entries:
\* '_Sidebar.md' with the rendered index and '<page_name>.md' with the body
\* of the version, whatever the title of the page; neither replaces the
\* other.
C14_FilesHoldIndexAndDocument ==
    \A k \in 1..Len(events) :
        LET files == events[k].files IN
        /\ Cardinality(DOMAIN files) = 2
        /\ SidebarFile \in DOMAIN files
        /\ DocumentFile(k) \in DOMAIN files
        /\ DOMAIN files[SidebarFile] = {"sidebar"}
        /\ DOMAIN files[DocumentFile(k)] = {"blob"}

============================================================================
